---- MODULE Spec2Model ----
(***************************************************************************)
(* PositionSticky (src/src/jquery.positionsticky.js, modular variant,      *)
(* lines 182-504): a scroll-driven three-scheme positioning state machine. *)
(* The page is modelled in document coordinates: the container's top edge  *)
(* lies below `lead` units of page content and the sticky element is the   *)
(* container's first child; viewport-relative reads subtract the page's    *)
(* actual vertical offset.                                                 *)
(***************************************************************************)
EXTENDS Integers, Sequences, FiniteSets, TLC

\* ---------------------------------------------------------------- bounds
MaxScroll          == 1   \* page offsets 0..MaxScroll
MaxBoxMetrics      == 1   \* total of the container's four border/padding metrics
MaxLead            == 1   \* height of the page content above the container
MaxContainerHeight == 1   \* container heights 0..MaxContainerHeight
MaxStickyHeight    == 1   \* sticky element heights 1..MaxStickyHeight
MaxOffsetOption    == 0   \* numeric options.offsetTop in -1..MaxOffsetOption

\* ------------------------------------------------------------- constants
POS_SCHEME_STATIC   == 100
POS_SCHEME_FIXED    == 200
POS_SCHEME_ABSOLUTE == 300

\* Horizontal layout of the page, read once by _init and fixed thereafter:
\* the page is not scrolled sideways and the container sits at the left edge.
PageXOffset      == 0   \* window.pageXOffset
StickyMarginLeft == 1   \* parseInt(getComputedStyle(element).marginLeft, 10)
StickyOffsetLeft == 3   \* element.offsetLeft
StickyRectLeft   == StickyOffsetLeft - PageXOffset   \* element.getBoundingClientRect().left

\* A CSS length as written by  n + 'px' ; an unset (or null-assigned) inline
\* length reads back as the empty value.
Px(n)   == <<n, "px">>
NoValue == <<>>

VARIABLES
  \* the page (environment)
  pageYOffset,        \* window.pageYOffset
  lead,               \* height of the page content above the container
  containerHeight,    \* height of the container's border box
  stickyHeight,       \* live height of the sticky element
  \* collaborators
  _container,         \* Container: cached border widths and paddings
  _sticky,            \* Sticky: cached boundingBoxHeight and the element's inline style
  _placeholder,       \* Placeholder: display and reserved height
  \* the PositionSticky instance
  _options,
  offsetTop,
  offsetBottom,
  _threshold,
  _posScheme,
  _isTicking,
  _latestKnownScrollY,
  _leftPositionWhenAbsolute,
  _leftPositionWhenFixed,
  \* the host's frame scheduler and observation of the last handler
  rafQueue,           \* callbacks requested through rAF and not yet run
  notifs,             \* scroll notifications since the last frame firing:
                      \* 0, 1, or 2 standing for "two or more"
  calls,              \* functions called by the most recent handler, in order
  \* the instance of the legacy variant (lines 4-172), when that is the one created
  legacy

vars == <<pageYOffset, lead, containerHeight, stickyHeight, _container, _sticky,
          _placeholder, _options, offsetTop, offsetBottom, _threshold, _posScheme,
          _isTicking, _latestKnownScrollY, _leftPositionWhenAbsolute,
          _leftPositionWhenFixed, rafQueue, notifs, calls, legacy>>

envVars  == <<pageYOffset, lead, containerHeight, stickyHeight>>
\* fixed once create() has returned (the legacy instance does not exist when
\* the modular variant is the one created)
confVars == <<_container, _options, offsetTop, offsetBottom,
              _leftPositionWhenAbsolute, _leftPositionWhenFixed, legacy>>

\* ------------------------------------------------------------ input sets
Containers ==
  { c \in [borderTopWidth : 0..MaxBoxMetrics, paddingTop : 0..MaxBoxMetrics,
           borderBottomWidth : 0..MaxBoxMetrics, paddingBottom : 0..MaxBoxMetrics] :
      c.borderTopWidth + c.paddingTop + c.borderBottomWidth + c.paddingBottom
        <= MaxBoxMetrics }

\* options.offsetTop: absent (typeof 'undefined'), a non-number (typeof
\* 'string') or a number, possibly negative
OptionValues ==
  { [type |-> "undefined", value |-> 0], [type |-> "string", value |-> 0] }
    \cup { [type |-> "number", value |-> v] : v \in (-1)..MaxOffsetOption }

\* ------------------------------------------------- page layout (DOM reads)
\* Document-relative top of the sticky element's slot in normal flow.
FlowTop(container, ld) == container.borderTopWidth + container.paddingTop + ld

\* container.element.getBoundingClientRect().bottom
ContainerRectBottom(ld, cHeight, pageY) == ld + cHeight - pageY

\* sticky.element.getBoundingClientRect().top, as laid out from its inline style
StickyRectTop(style, container, ld, cHeight, sHeight, pageY) ==
  IF style.position = "fixed" THEN style.top[1]
  ELSE IF style.position = "absolute"
    THEN ld + cHeight - container.borderBottomWidth - style.bottom[1] - sHeight - pageY
  ELSE FlowTop(container, ld) - pageY

\* placeholder.element.getBoundingClientRect().top: an undisplayed node has an
\* all-zero rectangle, a displayed one occupies the sticky element's slot
PlaceholderRectTop(display, container, ld, pageY) ==
  IF display = "none" THEN 0 ELSE FlowTop(container, ld) - pageY

\* -------------------------------------------------------- initialization
\* takes a configured 0 for "not configured"
_setOffsetTop_Positive(options, container) ==
  IF options.type = "number" /\ options.value > 0
    THEN options.value
    ELSE container.borderTopWidth + container.paddingTop

_setOffsetTop(options, container) ==
  IF options.type = "number" /\ options.value >= 0
    THEN options.value
    ELSE container.borderTopWidth + container.paddingTop

_setOffsetBottom(container) == container.borderBottomWidth + container.paddingBottom

_isStatic(posScheme)   == posScheme = POS_SCHEME_STATIC
_isFixed(posScheme)    == posScheme = POS_SCHEME_FIXED
_isAbsolute(posScheme) == posScheme = POS_SCHEME_ABSOLUTE

\* measures the sticky element itself whatever the scheme
_getStickyDistanceFromDocumentTop_AlwaysSticky(posScheme, latestY, stickyTop, placeholderTop) ==
  latestY + stickyTop

\* element = _isStatic() ? sticky.element : placeholder.element;
\* _latestKnownScrollY + element.getBoundingClientRect().top
_getStickyDistanceFromDocumentTop(posScheme, latestY, stickyTop, placeholderTop) ==
  latestY + (IF _isStatic(posScheme) THEN stickyTop ELSE placeholderTop)

_calcThreshold(posScheme, latestY, stickyTop, placeholderTop, oTop) ==
  _getStickyDistanceFromDocumentTop(posScheme, latestY, stickyTop, placeholderTop) - oTop

_setLeftPositionWhenAbsolute(offsetLeft, marginLeft) == offsetLeft - marginLeft

_setLeftPositionWhenFixed(pageXOffset, rectLeft, marginLeft) ==
  pageXOffset + rectLeft - marginLeft

\* Sticky.create(element): caches the element's bounding box height
StickyCreate(sHeight) ==
  [boundingBoxHeight |-> sHeight,
   style |-> [position |-> "", top |-> NoValue, bottom |-> NoValue, left |-> NoValue]]

\* Sticky.refresh(): re-measures the cached bounding box
StickyRefresh(sticky, sHeight) == [sticky EXCEPT !.boundingBoxHeight = sHeight]

\* Placeholder.create(sticky): hidden, sized to the sticky element's static box
_createPlaceholder(sticky) == [display |-> "none", height |-> sticky.boundingBoxHeight]

\* Placeholder.refresh(): re-sizes to the sticky element's box
PlaceholderRefresh(placeholder, sticky) ==
  [placeholder EXCEPT !.height = sticky.boundingBoxHeight]

\* null, as a value outside the three scheme constants
InitPosScheme_Null == POS_SCHEME_STATIC - POS_SCHEME_STATIC

InitPosScheme == POS_SCHEME_STATIC

\* No legacy instance exists.
NoLegacy == [created |-> FALSE]

_init(y, ld, cH, sH, c, o) ==
  /\ pageYOffset = y
  /\ lead = ld
  /\ containerHeight = cH
  /\ stickyHeight = sH
  /\ _container = c
  /\ _options = o
  /\ _sticky = StickyCreate(sH)
  /\ _posScheme = InitPosScheme
  /\ _isTicking = FALSE
  /\ _latestKnownScrollY = y
  /\ offsetTop = _setOffsetTop(o, c)
  /\ offsetBottom = _setOffsetBottom(c)
  /\ _threshold =
       _calcThreshold(InitPosScheme, y,
                      StickyRectTop(StickyCreate(sH).style, c, ld, cH, sH, y),
                      0, _setOffsetTop(o, c))
  /\ _leftPositionWhenAbsolute =
       _setLeftPositionWhenAbsolute(StickyOffsetLeft, StickyMarginLeft)
  /\ _leftPositionWhenFixed =
       _setLeftPositionWhenFixed(PageXOffset, StickyRectLeft, StickyMarginLeft)
  /\ _placeholder = _createPlaceholder(StickyCreate(sH))
  /\ rafQueue = 0
  /\ notifs = 0
  /\ calls = <<"_init">>
  /\ legacy = NoLegacy

Init ==
  \E y \in 0..MaxScroll, ld \in 0..MaxLead, cH \in 0..MaxContainerHeight,
     sH \in 1..MaxStickyHeight, c \in Containers, o \in OptionValues :
    _init(y, ld, cH, sH, c, o)

\* ---------------------------------------------------------- scroll sampler
\* requests a frame on every notification
_onScroll_NoGuard(y) ==
  /\ pageYOffset' = y
  /\ notifs' = IF notifs < 2 THEN notifs + 1 ELSE notifs
  /\ _latestKnownScrollY' = y
  /\ rafQueue' = rafQueue + 1
  /\ _isTicking' = TRUE
  /\ calls' = <<"_onScroll", "rAF">>
  /\ UNCHANGED <<lead, containerHeight, stickyHeight, _sticky, _placeholder,
                 _threshold, _posScheme>>
  /\ UNCHANGED confVars

\* requests the frame without raising the pending flag
_onScroll_NoFlag(y) ==
  /\ pageYOffset' = y
  /\ notifs' = IF notifs < 2 THEN notifs + 1 ELSE notifs
  /\ IF ~_isTicking
       THEN /\ _latestKnownScrollY' = y
            /\ rafQueue' = rafQueue + 1
            /\ UNCHANGED _isTicking
            /\ calls' = <<"_onScroll", "rAF">>
       ELSE /\ UNCHANGED <<_latestKnownScrollY, rafQueue, _isTicking>>
            /\ calls' = <<"_onScroll">>
  /\ UNCHANGED <<lead, containerHeight, stickyHeight, _sticky, _placeholder,
                 _threshold, _posScheme>>
  /\ UNCHANGED confVars

\* A scroll notification delivered while the page is at offset y.
_onScroll(y) ==
  /\ pageYOffset' = y
  /\ notifs' = IF notifs < 2 THEN notifs + 1 ELSE notifs
  /\ IF ~_isTicking
       THEN /\ _latestKnownScrollY' = y
            /\ rafQueue' = rafQueue + 1
            /\ _isTicking' = TRUE
            /\ calls' = <<"_onScroll", "rAF">>
       ELSE /\ UNCHANGED <<_latestKnownScrollY, rafQueue, _isTicking>>
            /\ calls' = <<"_onScroll">>
  /\ UNCHANGED <<lead, containerHeight, stickyHeight, _sticky, _placeholder,
                 _threshold, _posScheme>>
  /\ UNCHANGED confVars

\* ------------------------------------------------------ scheme transitions
\* The part of the instance and the DOM an evaluation writes.
Machine == [posScheme |-> _posScheme, isTicking |-> _isTicking,
            style |-> _sticky.style, display |-> _placeholder.display,
            calls |-> <<>>]

\* leaves the placeholder displayed
_makeStatic_KeepsPlaceholder(m) ==
  [m EXCEPT !.style.position = "static",
            !.posScheme = POS_SCHEME_STATIC,
            !.calls = Append(@, "_makeStatic")]

_makeStatic(m) ==
  [m EXCEPT !.style.position = "static",
            !.display = "none",
            !.posScheme = POS_SCHEME_STATIC,
            !.calls = Append(@, "_makeStatic")]

\* does not clear the bottom offset
_makeFixed_KeepsBottom(m) ==
  [m EXCEPT !.style.position = "fixed",
            !.style.top = Px(offsetTop),
            !.style.left = Px(_leftPositionWhenFixed),
            !.display = "block",
            !.posScheme = POS_SCHEME_FIXED,
            !.calls = Append(@, "_makeFixed")]

_makeFixed(m) ==
  [m EXCEPT !.style.bottom = NoValue,
            !.style.position = "fixed",
            !.style.top = Px(offsetTop),
            !.style.left = Px(_leftPositionWhenFixed),
            !.display = "block",
            !.posScheme = POS_SCHEME_FIXED,
            !.calls = Append(@, "_makeFixed")]

_makeAbsolute(m) ==
  [m EXCEPT !.style.top = NoValue,
            !.style.position = "absolute",
            !.style.bottom = Px(_container.paddingBottom),
            !.style.left = Px(_leftPositionWhenAbsolute),
            !.display = "block",
            !.posScheme = POS_SCHEME_ABSOLUTE,
            !.calls = Append(@, "_makeAbsolute")]

\* --------------------------------------------------------------- evaluation
\* non-strict comparison
_isBelowThreshold_Inclusive == _latestKnownScrollY <= _threshold

_isBelowThreshold == _latestKnownScrollY < _threshold

\* forgets the top offset
_getAvailableSpaceInContainer_NoOffsetTop ==
  ContainerRectBottom(lead, containerHeight, pageYOffset) - offsetBottom

_getAvailableSpaceInContainer ==
  ContainerRectBottom(lead, containerHeight, pageYOffset) - offsetBottom - offsetTop

\* strict comparison
_canStickyFitInContainer_Strict == _getAvailableSpaceInContainer > _sticky.boundingBoxHeight

_canStickyFitInContainer == _getAvailableSpaceInContainer >= _sticky.boundingBoxHeight

\* never clears the pending flag
_update_KeepsTicking(m0) ==
  LET m == [m0 EXCEPT !.calls = Append(@, "_update")] IN
  IF _isBelowThreshold
    THEN IF ~_isStatic(m.posScheme) THEN _makeStatic(m) ELSE m
  ELSE IF _canStickyFitInContainer
    THEN IF ~_isFixed(m.posScheme) THEN _makeFixed(m) ELSE m
  ELSE IF ~_isAbsolute(m.posScheme) THEN _makeAbsolute(m) ELSE m

\* applies the decided scheme without testing the current one
_update_Unguarded(m0) ==
  LET m == [m0 EXCEPT !.isTicking = FALSE, !.calls = Append(@, "_update")] IN
  IF _isBelowThreshold THEN _makeStatic(m)
  ELSE IF _canStickyFitInContainer THEN _makeFixed(m)
  ELSE _makeAbsolute(m)

_update(m0) ==
  LET m == [m0 EXCEPT !.isTicking = FALSE, !.calls = Append(@, "_update")] IN
  IF _isBelowThreshold
    THEN IF ~_isStatic(m.posScheme) THEN _makeStatic(m) ELSE m
  ELSE IF _canStickyFitInContainer
    THEN IF ~_isFixed(m.posScheme) THEN _makeFixed(m) ELSE m
  ELSE IF ~_isAbsolute(m.posScheme) THEN _makeAbsolute(m) ELSE m

\* The host runs, in one frame, every callback requested since the last frame.
RECURSIVE RunCallbacks(_, _)
RunCallbacks(m, k) == IF k = 0 THEN m ELSE RunCallbacks(_update(m), k - 1)

AnimationFrame ==
  /\ rafQueue > 0
  /\ LET m == RunCallbacks(Machine, rafQueue) IN
       /\ _posScheme' = m.posScheme
       /\ _isTicking' = m.isTicking
       /\ _sticky' = [_sticky EXCEPT !.style = m.style]
       /\ _placeholder' = [_placeholder EXCEPT !.display = m.display]
       /\ calls' = m.calls
  /\ rafQueue' = 0
  /\ notifs' = 0
  /\ UNCHANGED <<_threshold, _latestKnownScrollY>>
  /\ UNCHANGED envVars
  /\ UNCHANGED confVars

\* ----------------------------------------------------------- re-measurement
\* re-evaluates the scheme on the spot
refresh_Evaluates ==
  /\ _threshold' =
       _calcThreshold(_posScheme, _latestKnownScrollY,
                      StickyRectTop(_sticky.style, _container, lead, containerHeight,
                                    stickyHeight, pageYOffset),
                      PlaceholderRectTop(_placeholder.display, _container, lead,
                                         pageYOffset),
                      offsetTop)
  /\ LET m == _update(Machine) IN
       /\ _posScheme' = m.posScheme
       /\ _sticky' = [StickyRefresh(_sticky, stickyHeight) EXCEPT !.style = m.style]
       /\ _placeholder' =
            [PlaceholderRefresh(_placeholder, StickyRefresh(_sticky, stickyHeight))
               EXCEPT !.display = m.display]
  /\ calls' = <<"refresh", "_calcThreshold", "_sticky.refresh", "_placeholder.refresh">>
  /\ UNCHANGED <<_isTicking, _latestKnownScrollY, rafQueue, notifs>>
  /\ UNCHANGED envVars
  /\ UNCHANGED confVars

refresh ==
  /\ _threshold' =
       _calcThreshold(_posScheme, _latestKnownScrollY,
                      StickyRectTop(_sticky.style, _container, lead, containerHeight,
                                    stickyHeight, pageYOffset),
                      PlaceholderRectTop(_placeholder.display, _container, lead,
                                         pageYOffset),
                      offsetTop)
  /\ _sticky' = StickyRefresh(_sticky, stickyHeight)
  /\ _placeholder' = PlaceholderRefresh(_placeholder, StickyRefresh(_sticky, stickyHeight))
  /\ calls' = <<"refresh", "_calcThreshold", "_sticky.refresh", "_placeholder.refresh">>
  /\ UNCHANGED <<_posScheme, _isTicking, _latestKnownScrollY, rafQueue, notifs>>
  /\ UNCHANGED envVars
  /\ UNCHANGED confVars

\* ------------------------------------------------------------- environment
\* A layout change the instance cannot observe: the content above the
\* container, the container's height or the sticky element's height changes
\* (simultaneous changes are sequences of these with no handler in between).
Reflow ==
  /\ \/ /\ \E ld \in (0..MaxLead) \ {lead} : lead' = ld
        /\ UNCHANGED <<containerHeight, stickyHeight>>
     \/ /\ \E cH \in (0..MaxContainerHeight) \ {containerHeight} : containerHeight' = cH
        /\ UNCHANGED <<lead, stickyHeight>>
     \/ /\ \E sH \in (1..MaxStickyHeight) \ {stickyHeight} : stickyHeight' = sH
        /\ UNCHANGED <<lead, containerHeight>>
  /\ calls' = <<>>
  /\ UNCHANGED <<pageYOffset, _sticky, _placeholder, _threshold, _posScheme,
                 _isTicking, _latestKnownScrollY, rafQueue, notifs>>
  /\ UNCHANGED confVars

Next ==
  \/ \E y \in 0..MaxScroll : _onScroll(y)
  \/ AnimationFrame
  \/ refresh
  \/ Reflow

Spec == Init /\ [][Next]_vars

\* The host runs every requested frame callback: a requested frame stays
\* requested until it fires, so weak fairness on the frame is what rAF gives.
\* _onScroll and _update's flag handling read neither the container's metrics
\* nor the option, so the schedules are explored for the plain element: a
\* container without border or padding and no offsetTop option, on every page
\* layout and initial offset.
PlainContainer ==
  [borderTopWidth |-> 0, paddingTop |-> 0, borderBottomWidth |-> 0, paddingBottom |-> 0]

NoOption == [type |-> "undefined", value |-> 0]

FairInit ==
  \E y \in 0..MaxScroll, ld \in 0..MaxLead, cH \in 0..MaxContainerHeight,
     sH \in 1..MaxStickyHeight :
    _init(y, ld, cH, sH, PlainContainer, NoOption)

FairSpec == FairInit /\ [][Next]_vars /\ WF_vars(AnimationFrame)

\* =========================================================== legacy variant
\* The inline variant of the same file (lines 4-172): init/onScroll/update on
\* the same page, with no refresh().  Only the legacy instance exists.
NoInstance == <<>>

modVars == <<_sticky, _placeholder, offsetTop, offsetBottom, _threshold, _posScheme,
             _isTicking, _latestKnownScrollY, _leftPositionWhenAbsolute,
             _leftPositionWhenFixed>>

\* this.posScheme = null: a value outside the three scheme constants
LegacyInitPosScheme == POS_SCHEME_STATIC - POS_SCHEME_STATIC

\* inline 'position' values a container may carry before init
ContainerPositions == {"", "relative", "absolute"}

validateContainerPosScheme(containerPosScheme) ==
  IF containerPosScheme # "relative" /\ containerPosScheme # "absolute"
    THEN "relative"
    ELSE containerPosScheme

setOffsetTop(options, container) ==
  IF options.type = "number" /\ options.value >= 0
    THEN options.value
    ELSE container.borderTopWidth + container.paddingTop

setOffsetBottom(container) == container.borderBottomWidth + container.paddingBottom

\* Sum of offsetTop along the offsetParent chain: the element's offset from the
\* (positioned) container's padding edge plus the container's offset in the
\* page; offsetTop is measured inside the offset parent's border.
OffsetChainTop(container, ld) == container.paddingTop + ld

getElementDistanceFromDocumentTop(latestY, rectTop, chainTop) ==
  IF latestY = 0 THEN rectTop ELSE chainTop

calcThreshold(latestY, rectTop, chainTop, oTop) ==
  getElementDistanceFromDocumentTop(latestY, rectTop, chainTop) - oTop

createPlaceholder(sHeight) == [display |-> "none", height |-> sHeight]

init(y, ld, cH, sH, c, o, cpos) ==
  /\ pageYOffset = y
  /\ lead = ld
  /\ containerHeight = cH
  /\ stickyHeight = sH
  /\ _container = c
  /\ _options = o
  /\ legacy =
       [created |-> TRUE,
        posScheme |-> LegacyInitPosScheme,
        isTicking |-> FALSE,
        latestKnownScrollY |-> y,
        containerPosition |-> validateContainerPosScheme(cpos),
        offsetTop |-> setOffsetTop(o, c),
        offsetBottom |-> setOffsetBottom(c),
        threshold |-> calcThreshold(y, FlowTop(c, ld) - y, OffsetChainTop(c, ld),
                                    setOffsetTop(o, c)),
        style |-> [position |-> "", top |-> NoValue, bottom |-> NoValue],
        placeholder |-> createPlaceholder(sH)]
  /\ _sticky = NoInstance
  /\ _placeholder = NoInstance
  /\ offsetTop = NoInstance
  /\ offsetBottom = NoInstance
  /\ _threshold = NoInstance
  /\ _posScheme = NoInstance
  /\ _isTicking = NoInstance
  /\ _latestKnownScrollY = NoInstance
  /\ _leftPositionWhenAbsolute = NoInstance
  /\ _leftPositionWhenFixed = NoInstance
  /\ rafQueue = 0
  /\ notifs = 0
  /\ calls = <<"init">>

LegacyInit ==
  \E y \in 0..MaxScroll, ld \in 0..MaxLead, cH \in 0..MaxContainerHeight,
     sH \in 1..MaxStickyHeight, c \in Containers, o \in OptionValues,
     cpos \in ContainerPositions :
    init(y, ld, cH, sH, c, o, cpos)

onScroll(y) ==
  /\ pageYOffset' = y
  /\ notifs' = IF notifs < 2 THEN notifs + 1 ELSE notifs
  /\ IF ~legacy.isTicking
       THEN /\ legacy' = [legacy EXCEPT !.latestKnownScrollY = y, !.isTicking = TRUE]
            /\ rafQueue' = rafQueue + 1
            /\ calls' = <<"onScroll", "requestAnimationFrame">>
       ELSE /\ UNCHANGED <<legacy, rafQueue>>
            /\ calls' = <<"onScroll">>
  /\ UNCHANGED <<lead, containerHeight, stickyHeight, _container, _options>>
  /\ UNCHANGED modVars

isStatic(l)   == l.posScheme = POS_SCHEME_STATIC
isFixed(l)    == l.posScheme = POS_SCHEME_FIXED
isAbsolute(l) == l.posScheme = POS_SCHEME_ABSOLUTE

makeStatic(l) ==
  [l EXCEPT !.style.position = "static",
            !.placeholder.display = "none",
            !.posScheme = POS_SCHEME_STATIC,
            !.calls = Append(@, "makeStatic")]

makeFixed(l) ==
  [l EXCEPT !.style.bottom = NoValue,
            !.style.position = "fixed",
            !.style.top = Px(l.offsetTop),
            !.placeholder.display = "block",
            !.posScheme = POS_SCHEME_FIXED,
            !.calls = Append(@, "makeFixed")]

makeAbsolute(l) ==
  [l EXCEPT !.style.top = NoValue,
            !.style.position = "absolute",
            !.style.bottom = Px(l.offsetBottom),
            !.placeholder.display = "block",
            !.posScheme = POS_SCHEME_ABSOLUTE,
            !.calls = Append(@, "makeAbsolute")]

isBelowThreshold(l) == l.latestKnownScrollY < l.threshold

getAvailableSpaceInContainer(l) ==
  ContainerRectBottom(lead, containerHeight, pageYOffset) - l.offsetBottom - l.offsetTop

\* the element's height is read live: element.getBoundingClientRect().height
canStickyFitInContainer(l) == getAvailableSpaceInContainer(l) >= stickyHeight

update(l0) ==
  LET l == [l0 EXCEPT !.isTicking = FALSE, !.calls = Append(@, "update")] IN
  IF isBelowThreshold(l)
    THEN IF ~isStatic(l) THEN makeStatic(l) ELSE l
  ELSE IF canStickyFitInContainer(l)
    THEN IF ~isFixed(l) THEN makeFixed(l) ELSE l
  ELSE IF ~isAbsolute(l) THEN makeAbsolute(l) ELSE l

RECURSIVE RunLegacyCallbacks(_, _)
RunLegacyCallbacks(l, k) == IF k = 0 THEN l ELSE RunLegacyCallbacks(update(l), k - 1)

LegacyAnimationFrame ==
  /\ rafQueue > 0
  /\ LET l == RunLegacyCallbacks([c \in DOMAIN legacy \cup {"calls"} |->
                                    IF c = "calls" THEN <<>> ELSE legacy[c]],
                                 rafQueue) IN
       /\ legacy' = [c \in DOMAIN legacy |-> l[c]]
       /\ calls' = l.calls
  /\ rafQueue' = 0
  /\ notifs' = 0
  /\ UNCHANGED envVars
  /\ UNCHANGED <<_container, _options>>
  /\ UNCHANGED modVars

LegacyNext ==
  \/ \E y \in 0..MaxScroll : onScroll(y)
  \/ LegacyAnimationFrame
  \/ Reflow

LegacySpec == LegacyInit /\ [][LegacyNext]_vars

\* ================================================================== claims
\* The most recent handler was a frame callback (_update ran last).
JustUpdated == Len(calls) >= 1 /\ calls[1] = "_update"

\* The most recent handler was refresh().
JustRefreshed == Len(calls) >= 1 /\ calls[1] = "refresh"

MakeCalls(cs) ==
  Cardinality({ i \in 1..Len(cs) : cs[i] \in {"_makeStatic", "_makeFixed", "_makeAbsolute"} })

\* C1: the scheme is Static right after _init, and in every reachable state
\* _posScheme is one of the three scheme constants (never null or another value).
C1_ExactlyOneScheme ==
  /\ _posScheme \in {POS_SCHEME_STATIC, POS_SCHEME_FIXED, POS_SCHEME_ABSOLUTE}
  /\ calls = <<"_init">> => _posScheme = POS_SCHEME_STATIC

C1_Witness == JustRefreshed /\ _posScheme = POS_SCHEME_ABSOLUTE

\* C2: after every completed _update the scheme is decided by that evaluation's
\* inputs alone: Static if latestKnownScrollY < threshold, else Fixed if
\* (container rect bottom - offsetBottom - offsetTop) >= sticky height, else Absolute.
C2_SchemeIsFunctionOfInputs ==
  JustUpdated =>
    _posScheme =
      IF _latestKnownScrollY < _threshold THEN POS_SCHEME_STATIC
      ELSE IF (lead + containerHeight - pageYOffset) - offsetBottom - offsetTop
                >= _sticky.boundingBoxHeight
        THEN POS_SCHEME_FIXED
      ELSE POS_SCHEME_ABSOLUTE

C2_Witness ==
  /\ calls = <<"_update", "_makeAbsolute">>
  /\ _latestKnownScrollY >= _threshold
  /\ offsetTop > 0
  /\ (lead + containerHeight - pageYOffset) - offsetBottom >= _sticky.boundingBoxHeight

\* C3: the placeholder is displayed ('block') exactly when the scheme is not
\* Static and hidden ('none') exactly when it is Static.
C3_PlaceholderShownIffNotStatic ==
  /\ (_placeholder.display = "block") <=> (_posScheme # POS_SCHEME_STATIC)
  /\ (_placeholder.display = "none") <=> (_posScheme = POS_SCHEME_STATIC)

C3_Witness ==
  /\ calls = <<"_update", "_makeStatic">>
  /\ _posScheme = POS_SCHEME_STATIC
  /\ _placeholder.display = "none"

\* C4: N >= 1 scroll notifications between two frame firings request exactly one
\* frame callback and result in exactly one _update; notifications 2..N request
\* no further frame.
C4_OneFramePerBurst ==
  /\ notifs >= 1 => rafQueue = 1
  /\ (notifs >= 2 /\ Len(calls) >= 1 /\ calls[1] = "_onScroll") => calls = <<"_onScroll">>
  /\ JustUpdated => Cardinality({ i \in 1..Len(calls) : calls[i] = "_update" }) = 1

C4_Witness == notifs >= 2 /\ rafQueue = 1 /\ calls = <<"_onScroll">>

\* C5: the _update run by a frame decides with the scroll offset observed at the
\* most recent notification before the frame (the page offset changes only at
\* notifications, so that is pageYOffset when the frame fires).
C5_UsesMostRecentOffset == JustUpdated => _latestKnownScrollY = pageYOffset

\* C6: an _update whose decided scheme equals the current scheme mutates no style
\* and no instance field besides clearing _isTicking, and any single _update
\* calls at most one of _makeStatic/_makeFixed/_makeAbsolute.
C6_UpdateIdempotent ==
  [][ (rafQueue > 0 /\ rafQueue' = 0) =>
        LET decided ==
              IF _latestKnownScrollY < _threshold THEN POS_SCHEME_STATIC
              ELSE IF (lead + containerHeight - pageYOffset) - offsetBottom - offsetTop
                        >= _sticky.boundingBoxHeight
                THEN POS_SCHEME_FIXED
              ELSE POS_SCHEME_ABSOLUTE
        IN /\ MakeCalls(calls') <= 1
           /\ decided = _posScheme =>
                /\ MakeCalls(calls') = 0
                /\ _isTicking' = FALSE
                /\ UNCHANGED <<_sticky, _placeholder, _posScheme, _threshold,
                               _latestKnownScrollY, offsetTop, offsetBottom,
                               _options, _container, _leftPositionWhenAbsolute,
                               _leftPositionWhenFixed>> ]_vars

C6_Witness == calls = <<"_update">> /\ _posScheme = POS_SCHEME_FIXED

\* C7: an _update with latestKnownScrollY = threshold - 1 leaves the scheme
\* Static; one with latestKnownScrollY = threshold leaves it Fixed or Absolute.
C7_ThresholdBoundary ==
  /\ (JustUpdated /\ _latestKnownScrollY = _threshold - 1) => _posScheme = POS_SCHEME_STATIC
  /\ (JustUpdated /\ _latestKnownScrollY = _threshold)
       => _posScheme \in {POS_SCHEME_FIXED, POS_SCHEME_ABSOLUTE}

C7_Witness ==
  /\ JustUpdated
  /\ MakeCalls(calls) = 1
  /\ _latestKnownScrollY = _threshold
  /\ _posScheme # POS_SCHEME_STATIC

\* C8: for an _update at or past the threshold, available space equal to the
\* sticky height gives Fixed; one less than the height gives Absolute.
C8_FitBoundary ==
  LET avail == (lead + containerHeight - pageYOffset) - offsetBottom - offsetTop IN
  /\ (JustUpdated /\ _latestKnownScrollY >= _threshold /\ avail = _sticky.boundingBoxHeight)
       => _posScheme = POS_SCHEME_FIXED
  /\ (JustUpdated /\ _latestKnownScrollY >= _threshold /\ avail = _sticky.boundingBoxHeight - 1)
       => _posScheme = POS_SCHEME_ABSOLUTE

C8_Witness ==
  /\ JustUpdated
  /\ _latestKnownScrollY >= _threshold
  /\ (lead + containerHeight - pageYOffset) - offsetBottom - offsetTop = _sticky.boundingBoxHeight
  /\ _posScheme = POS_SCHEME_FIXED

\* C9: refresh() leaves _posScheme, _isTicking, _latestKnownScrollY and the
\* element's position styles unchanged and schedules no evaluation; it recomputes
\* the threshold from the placeholder's position when the scheme is Fixed or
\* Absolute and from the sticky element's when Static.
C9_RefreshConsistency ==
  [][ (Len(calls') >= 1 /\ calls'[1] = "refresh") =>
        /\ UNCHANGED <<_posScheme, _isTicking, _latestKnownScrollY, rafQueue>>
        /\ _sticky'.style = _sticky.style
        /\ \A i \in 1..Len(calls') : calls'[i] \notin {"rAF", "_update"}
        /\ _threshold' =
             _latestKnownScrollY
               + (IF _posScheme = POS_SCHEME_STATIC
                    THEN StickyRectTop(_sticky.style, _container, lead, containerHeight,
                                       stickyHeight, pageYOffset)
                    ELSE PlaceholderRectTop(_placeholder.display, _container, lead,
                                            pageYOffset))
               - offsetTop ]_vars

C9_Witness ==
  /\ JustRefreshed
  /\ _posScheme = POS_SCHEME_FIXED
  /\ StickyRectTop(_sticky.style, _container, lead, containerHeight, stickyHeight,
                   pageYOffset)
       # PlaceholderRectTop(_placeholder.display, _container, lead, pageYOffset)
  /\ _threshold = _latestKnownScrollY
       + PlaceholderRectTop(_placeholder.display, _container, lead, pageYOffset)
       - offsetTop

\* C10 (as stated): the inline 'top' offset is set only while the scheme is Fixed
\* and the inline 'bottom' offset only while it is Absolute, so Static carries
\* neither.
C10_OffsetsOnlyInOwnScheme ==
  /\ _sticky.style.top # NoValue => _posScheme = POS_SCHEME_FIXED
  /\ _sticky.style.bottom # NoValue => _posScheme = POS_SCHEME_ABSOLUTE

\* C10 (amended): Fixed carries its top offset and no bottom offset, Absolute
\* carries its bottom offset and no top offset, and the element never carries
\* both; _makeStatic clears neither, so Static may keep the offset of the scheme
\* it left.
C10_NonStaticClearsOther ==
  /\ _posScheme = POS_SCHEME_FIXED =>
       _sticky.style.top = Px(offsetTop) /\ _sticky.style.bottom = NoValue
  /\ _posScheme = POS_SCHEME_ABSOLUTE =>
       _sticky.style.top = NoValue /\ _sticky.style.bottom # NoValue
  /\ ~(_sticky.style.top # NoValue /\ _sticky.style.bottom # NoValue)

C10_Witness ==
  /\ calls = <<"_update", "_makeStatic">>
  /\ _posScheme = POS_SCHEME_STATIC
  /\ _sticky.style.top # NoValue
  /\ _sticky.style.bottom = NoValue

\* C11: provided the host eventually fires every requested frame, every scroll
\* notification is eventually followed by an _update, and the pending flag never
\* stays true forever.
C11_EveryScrollEvaluated ==
  /\ (notifs >= 1) ~> JustUpdated
  /\ _isTicking ~> ~_isTicking

C11_Witness == JustUpdated /\ notifs = 0 /\ ~_isTicking /\ rafQueue = 0

\* C12: offsetTop is options.offsetTop when that is a number >= 0 (0 included),
\* and the container's borderTopWidth + paddingTop otherwise (absent, negative,
\* not a number); scroll, frame and refresh events never change it.
C12_OffsetTopFromOptionOrContainer ==
  offsetTop =
    IF _options.type = "number" /\ _options.value >= 0
      THEN _options.value
      ELSE _container.borderTopWidth + _container.paddingTop

C12_Witness ==
  /\ JustRefreshed
  /\ _posScheme # POS_SCHEME_STATIC
  /\ _options.type = "number"
  /\ _options.value = 0
  /\ _container.borderTopWidth + _container.paddingTop > 0
  /\ offsetTop = 0

\* C13: after every transition to Absolute the element's 'bottom' style equals
\* offsetBottom = container.borderBottomWidth + container.paddingBottom.
C13_AbsoluteBottomIsOffsetBottom ==
  _posScheme = POS_SCHEME_ABSOLUTE => _sticky.style.bottom = Px(offsetBottom)

\* C14: _isTicking holds exactly when one requested frame callback is
\* outstanding, never more than one is; the flag is down once a frame callback
\* has run, and a notification that requests no frame is never the first one
\* since the last frame callback (none is dropped).
C14_TickingIffOneOutstanding ==
  /\ rafQueue <= 1
  /\ _isTicking <=> (rafQueue = 1)
  /\ JustUpdated => ~_isTicking
  /\ calls = <<"_onScroll">> => notifs >= 2

C14_Witness ==
  /\ calls = <<"_onScroll", "rAF">>
  /\ _sticky.style.position # ""
  /\ _isTicking
  /\ rafQueue = 1

\* C15: after _init and after every refresh() the threshold equals the true
\* document distance of the sticky element's slot (actual page offset plus the
\* viewport-relative top of the element, or of the placeholder when non-Static)
\* minus offsetTop.
C15_ThresholdIsTrueDistance ==
  (calls = <<"_init">> \/ JustRefreshed) =>
    _threshold = FlowTop(_container, lead) - offsetTop

\* C16: an evaluation at or past the threshold while the container's height is
\* zero computes fits = false and leaves the scheme Absolute (the sticky element
\* has positive height and lies where the threshold was measured).
C16_ZeroHeightContainerGivesAbsolute ==
  ( /\ JustUpdated
    /\ _latestKnownScrollY >= _threshold
    /\ _threshold = FlowTop(_container, lead) - offsetTop
    /\ containerHeight = 0
    /\ _sticky.boundingBoxHeight > 0 )
    => _posScheme = POS_SCHEME_ABSOLUTE

\* C17: once the scroll notifications have stopped and every requested frame
\* callback has run, the scheme is the decision for the page's actual offset.
C17_QuiescentSchemeMatchesPageOffset ==
  (JustUpdated /\ rafQueue = 0) =>
    _posScheme =
      IF pageYOffset < _threshold THEN POS_SCHEME_STATIC
      ELSE IF (lead + containerHeight - pageYOffset) - offsetBottom - offsetTop
                >= _sticky.boundingBoxHeight
        THEN POS_SCHEME_FIXED
      ELSE POS_SCHEME_ABSOLUTE

\* C18: _init and refresh() neither run _update nor request a frame; the scheme,
\* the element's position styles and the placeholder's visibility change only
\* in a frame callback requested by a scroll notification, so the scheme is
\* Static after create() whatever the page offset.
C18_EvaluationOnlyInFrames ==
  /\ (_posScheme = POS_SCHEME_STATIC /\ rafQueue = 0 /\ ~_isTicking /\ calls = <<"_init">>)
  /\ [][ /\ ( \/ _posScheme' # _posScheme
              \/ _sticky'.style # _sticky.style
              \/ _placeholder'.display # _placeholder.display )
            => (rafQueue = 1 /\ rafQueue' = 0 /\ calls'[1] = "_update")
         /\ rafQueue' > rafQueue => calls' = <<"_onScroll", "rAF">>
         /\ (Len(calls') >= 1 /\ calls'[1] = "refresh")
            => \A i \in 1..Len(calls') : calls'[i] \notin {"rAF", "_update"} ]_vars

C18_Witness ==
  /\ JustRefreshed
  /\ _sticky.style.position = ""
  /\ _posScheme = POS_SCHEME_STATIC
  /\ pageYOffset >= _threshold
  /\ _latestKnownScrollY >= _threshold

\* C19: in the legacy variant posScheme is Static right after init and one of
\* the three scheme constants in every reachable state, and an update below the
\* threshold before any transition mutates no style (makeStatic runs only to
\* leave Fixed or Absolute, which leave their offset behind).
C19_LegacyExactlyOneScheme ==
  /\ legacy.posScheme \in {POS_SCHEME_STATIC, POS_SCHEME_FIXED, POS_SCHEME_ABSOLUTE}
  /\ calls = <<"init">> => legacy.posScheme = POS_SCHEME_STATIC
  /\ calls = <<"update", "makeStatic">> =>
       (legacy.style.top # NoValue \/ legacy.style.bottom # NoValue)

====
